---- MODULE Spec2Model ----
(***************************************************************************)
(* A model of the CP-VTON try-on module of ShineOn (UnetMaskModel on top   *)
(* of BaseModel): construction of the generator, forward (slicing,         *)
(* nonlinearities, frame chunking, flow blend, compositing), the training  *)
(* step, the inference step with its skip-if-exists check, and the         *)
(* selection of person visuals.                                            *)
(*                                                                         *)
(* A tensor is a sequence of channels; a channel is a sequence of ImgW     *)
(* pixel values (batch size 1, height 1).  Real numbers are fixed point    *)
(* with unit One: the value v stands for v / One.                          *)
(***************************************************************************)
EXTENDS Integers, Sequences, FiniteSets, TLC

VARIABLES hparams, unet, test_results_dir, global_step, batch_idx, prev_frame,
          outputs, fs, board, n_forward, call, alive

vars == <<hparams, unet, test_results_dir, global_step, batch_idx, prev_frame,
          outputs, fs, board, n_forward, call, alive>>

(***************************************************************************)
(* Bounds of the model.                                                    *)
(***************************************************************************)
MaxSteps == 2
MaxFrames == 3
MaxBatch == 2
ImgW == 2
MaxNames == 2
MaxChannels == 6

(***************************************************************************)
(* Numbers.                                                                *)
(***************************************************************************)
One == 2 * 2 * 2
Half == One \div 2

Abs(x) == IF x < 0 THEN -x ELSE x
Min(a, b) == IF a < b THEN a ELSE b

RECURSIVE SumSeq(_)
SumSeq(s) == IF s = <<>> THEN 0 ELSE Head(s) + SumSeq(Tail(s))

\* Optional values: None, or a value wrapped in a one-element tuple.
None == <<>>
Some(x) == <<x>>
IsNone(o) == Len(o) = 0
The(o) == o[1]

(***************************************************************************)
(* Tensor operations (torch).                                              *)
(***************************************************************************)
Uniform(v) == [x \in 1..ImgW |-> v]
Ramp(a, b) == [x \in 1..ImgW |-> IF x = 1 THEN a ELSE b]

\* t[:, lo:hi] with Python's clamping of slice bounds (0-based, hi exclusive).
Slice(t, lo, hi) ==
  LET h == Min(hi, Len(t))
  IN  IF lo >= h THEN <<>> ELSE SubSeq(t, lo + 1, h)

\* torch.cat(list, dim=1)
RECURSIVE Cat(_)
Cat(ts) == IF ts = <<>> THEN <<>> ELSE Head(ts) \o Cat(Tail(ts))

\* Variant: the groups taken with stride n instead of contiguously.
ChunkStrided(t, n) ==
  LET C == Len(t)
      size == (C + n - 1) \div n
  IN  [i \in 1..n |-> [c \in 1..size |-> t[Min(i + (c - 1) * n, C)]]]

\* torch.chunk(t, n, dim=1): chunks of ceil(C / n) channels, the last one
\* possibly smaller, possibly fewer than n chunks.
Chunk(t, n) ==
  LET C == Len(t)
      size == (C + n - 1) \div n
      count == IF size = 0 THEN 0 ELSE (C + size - 1) \div size
  IN  [i \in 1..count |-> Slice(t, (i - 1) * size, i * size)]

\* Elementwise map of one tensor.
MapT(F(_), t) == [c \in 1..Len(t) |-> [x \in 1..ImgW |-> F(t[c][x])]]

\* Elementwise binary operation with broadcasting over the channel axis.
BinT(F(_, _), a, b) ==
  LET C == IF Len(a) = 1 THEN Len(b) ELSE Len(a)
      ch(t, c) == IF Len(t) = 1 THEN t[1] ELSE t[c]
  IN  [c \in 1..C |-> [x \in 1..ImgW |-> F(ch(a, c)[x], ch(b, c)[x])]]

FxMul(a, b) == (a * b) \div One
FxAdd(a, b) == a + b
FxOneMinus(a) == One - a

MulT(a, b) == BinT(FxMul, a, b)
AddT(a, b) == BinT(FxAdd, a, b)
OneMinusT(a) == MapT(FxOneMinus, a)

\* Raw generator outputs are logits: -1 a large negative one, 0 zero, 1 a
\* large positive one; the nonlinearities saturate on the large ones.
Logits == {-1, 0, 1}
TanhFx(l) == l * One
SigmoidFx(l) == (l + 1) * Half
Tanh(t) == MapT(TanhFx, t)
Sigmoid(t) == MapT(SigmoidFx, t)

\* zip(a, b, c): the positions all three lists have.
ZipLen3(a, b, c) == Min(Len(a), Min(Len(b), Len(c)))

(***************************************************************************)
(* Collaborators outside the repository's sources.                         *)
(***************************************************************************)
RGB_CHANNELS == 3
CLOTH_MASK_CHANNELS == 1

Clamp(x) == IF x < 1 THEN 1 ELSE IF x > ImgW THEN ImgW ELSE x

\* Resample2d(im, flow): every output pixel samples the input at its own
\* position displaced by the flow's first (horizontal) channel, clamped to
\* the border.
Resample(im, flow) ==
  [c \in 1..Len(im) |-> [x \in 1..ImgW |-> im[c][Clamp(x + flow[1][x])]]]

\* F.l1_loss(a, b): the mean absolute difference.
L1Loss(a, b) ==
  LET d == BinT(LAMBDA u, v : Abs(u - v), a, b)
      total == SumSeq([c \in 1..Len(d) |-> SumSeq(d[c])])
  IN  IF Len(d) = 0 THEN 0 ELSE total \div (Len(d) * ImgW)

\* get_save_paths(im_names, save_dirs): each image name under its directory.
get_save_paths(im_names, dirs) ==
  [i \in 1..Min(Len(im_names), Len(dirs)) |-> dirs[i] \o <<im_names[i]>>]

\* osp.basename of a path given as its components.
basename(path) == path[Len(path)]

(***************************************************************************)
(* Construction: BaseModel.__init__ and UnetMaskModel.__init__.            *)
(***************************************************************************)
TestResultsDir(hp) ==
  IF ~hp.isTrain
  THEN Some(<<hp.result_dir, hp.name, basename(hp.checkpoint), hp.datamode>>)
  ELSE None

CtorFrames(hp) == IF hp.has_n_frames_total THEN hp.n_frames_total ELSE 1

\* Variant: three output channels per frame without flow-warp.
OutputNcThreePerFrame(hp) ==
  IF hp.flow_warp THEN 5 * CtorFrames(hp) ELSE 3 * CtorFrames(hp)

OutputNc(hp) == IF hp.flow_warp THEN 5 * CtorFrames(hp) ELSE 4 * CtorFrames(hp)

InputNc(hp) == (hp.person_channels + hp.cloth_channels) * CtorFrames(hp)

UnetGenerator(hp) ==
  [input_nc |-> InputNc(hp), output_nc |-> OutputNc(hp), num_downs |-> 6]

(***************************************************************************)
(* UnetMaskModel.forward.  gen is the generator's raw output for this call.*)
(***************************************************************************)
ForwardFail(status, events) ==
  [status |-> status, events |-> events, p_rendereds |-> <<>>,
   m_composites |-> <<>>, p_tryons |-> <<>>, groups |-> <<>>,
   warped_src |-> None, blended |-> <<>>, parts |-> <<>>]

Boundary(hp) == 3 * hp.n_frames_total
WeightBoundary(hp) == 4 * hp.n_frames_total

\* outputs[:, 0:boundary], outputs[:, boundary:weight_boundary] and, in
\* flow-warp mode only, outputs[:, weight_boundary:].
SplitOutputs(hp, outs) ==
  [rendered |-> Slice(outs, 0, Boundary(hp)),
   mask |-> Slice(outs, Boundary(hp), WeightBoundary(hp)),
   weight |-> IF hp.flow_warp
              THEN Some(Slice(outs, WeightBoundary(hp), Len(outs)))
              ELSE None]

\* The channel widths of the three parts (0 for an absent weight mask).
PartWidths(parts) ==
  <<Len(parts.rendered), Len(parts.mask),
    IF IsNone(parts.weight) THEN 0 ELSE Len(The(parts.weight))>>

\* (1 - weight) * warp_flow + weight * p_rendered
FlowBlend(weight, warp_flow, p_rendered) ==
  AddT(MulT(OneMinusT(weight), warp_flow), MulT(weight, p_rendered))

\* wc * mask + p * (1 - mask)
Composite(wc, p, mask) == AddT(MulT(wc, mask), MulT(p, OneMinusT(mask)))

Forward(hp, un, person, cloth, flows, prev_im, gen) ==
  IF ~IsNone(flows) /\ ~hp.has_n_frames_total
  THEN ForwardFail("AttributeError", <<>>)
  ELSE IF ~IsNone(flows) /\ ~(hp.n_frames_total <= 1)
  THEN ForwardFail("AssertionError", <<>>)
  ELSE
  LET concat_tensor == Cat(<<person, cloth>>) IN
  IF Len(concat_tensor) # un.input_nc
  THEN ForwardFail("RuntimeError", <<"cat">>)
  ELSE IF ~hp.has_n_frames_total
  THEN ForwardFail("AttributeError", <<"cat", "unet">>)
  ELSE
  LET n == hp.n_frames_total
      parts == SplitOutputs(hp, gen)
      p_rendereds == Tanh(parts.rendered)
      m_composites == Sigmoid(parts.mask)
      weight_masks == IF IsNone(parts.weight) THEN None
                      ELSE Some(Sigmoid(The(parts.weight)))
  IN
  IF IsNone(flows)
  THEN [ForwardFail("TypeError", <<"cat", "unet", "slice">>)
          EXCEPT !.parts = PartWidths(parts)]
  ELSE
  LET flows_chunked == Chunk(The(flows), n)
      warped_cloths_chunked == Chunk(cloth, n)
      p_rendereds_chunked == Chunk(p_rendereds, n)
      m_composites_chunked == Chunk(m_composites, n)
  IN
  IF IsNone(prev_im) \/ IsNone(weight_masks)
  THEN [ForwardFail("TypeError", <<"cat", "unet", "slice", "chunk">>)
          EXCEPT !.parts = PartWidths(parts)]
  ELSE
  LET weight_masks_chunked == Chunk(The(weight_masks), n)
      warped_flows == <<Resample(The(prev_im), flows_chunked[1])>>
      nw == ZipLen3(weight_masks_chunked, warped_flows, p_rendereds_chunked)
      p_rendereds_warped ==
        [i \in 1..nw |-> FlowBlend(weight_masks_chunked[i], warped_flows[i],
                                   p_rendereds_chunked[i])]
      nt == ZipLen3(warped_cloths_chunked, p_rendereds_warped,
                    m_composites_chunked)
      p_tryons == [i \in 1..nt |-> Composite(warped_cloths_chunked[i],
                                             p_rendereds_warped[i],
                                             m_composites_chunked[i])]
  IN
  [status |-> "returned",
   events |-> <<"cat", "unet", "slice", "chunk", "resample", "blend",
                "composite">>,
   p_rendereds |-> p_rendereds,
   m_composites |-> m_composites,
   p_tryons |-> Cat(p_tryons),
   groups |-> <<Len(flows_chunked), Len(warped_cloths_chunked),
                Len(p_rendereds_chunked), Len(m_composites_chunked),
                Len(weight_masks_chunked), Len(p_tryons)>>,
   warped_src |-> prev_im,
   blended |-> Cat(p_rendereds_warped),
   parts |-> PartWidths(parts)]

(***************************************************************************)
(* UnetMaskModel.fetch_person_visuals.  batch maps a name to its tensor.   *)
(***************************************************************************)
Reverse(s) == [i \in 1..Len(s) |-> s[Len(s) + 1 - i]]

ApplySort(sort_fn, names) == IF sort_fn = "reversed" THEN Reverse(names) ELSE names

\* The channel count the loop tests and the tensor it would keep.
VisualOf(hp, tensor) ==
  IF hp.n_frames_total > 1
  THEN LET channels == Len(tensor) \div 2
       IN  [channels |-> channels, tensor |-> Slice(tensor, channels, Len(tensor))]
  ELSE [channels |-> Len(tensor), tensor |-> tensor]

IsVisualizable(channels) ==
  channels = RGB_CHANNELS \/ channels = CLOTH_MASK_CHANNELS

RECURSIVE CollectVisuals(_, _, _)
CollectVisuals(hp, batch, names) ==
  IF names = <<>> THEN [tensors |-> <<>>, kept |-> <<>>, warned |-> <<>>]
  ELSE LET name == Head(names)
           v == VisualOf(hp, batch[name])
           rest == CollectVisuals(hp, batch, Tail(names))
       IN  IF IsVisualizable(v.channels)
           THEN [rest EXCEPT !.tensors = <<v.tensor>> \o @,
                             !.kept = <<name>> \o @]
           ELSE [rest EXCEPT !.warned = <<name>> \o @]

fetch_person_visuals(hp, batch, sort_fn) ==
  LET person_vis_names == ApplySort(sort_fn, hp.person_vis_names)
      empty == [status |-> "AttributeError", tensors |-> <<>>, kept |-> <<>>,
                warned |-> <<>>]
  IN  IF person_vis_names = <<>>
      THEN [empty EXCEPT !.status = "ValueError"]
      ELSE IF ~hp.has_n_frames_total THEN empty
      ELSE LET got == CollectVisuals(hp, batch, person_vis_names)
           IN  [status |-> IF Len(got.tensors) = 0 THEN "ValueError"
                           ELSE "returned",
                tensors |-> got.tensors, kept |-> got.kept,
                warned |-> got.warned]

(***************************************************************************)
(* Configurations and batches the collaborators supply.                    *)
(***************************************************************************)
VisNames == {"agnostic", "silhouette", "cocopose"}

\* Channels per frame of each person visual the dataset supplies.
VisFrameChannels(name) ==
  CASE name = "agnostic" -> RGB_CHANNELS
    [] name = "silhouette" -> CLOTH_MASK_CHANNELS
    [] OTHER -> 18

NameLists ==
  {<<>>} \cup UNION {{s \in [1..k -> VisNames] :
                        \A i, j \in 1..k : i # j => s[i] # s[j]} :
                     k \in 1..MaxNames}

\* The options of a training run and of an inference run.
HParams ==
  [isTrain : {TRUE}, flow_warp : BOOLEAN, has_n_frames_total : BOOLEAN,
   n_frames_total : 1..MaxFrames, display_count : 0..MaxSteps,
   person_channels : {22}, cloth_channels : {RGB_CHANNELS},
   person_vis_names : {<<"cocopose">>, <<"agnostic", "cocopose">>,
                       <<"cocopose", "silhouette", "agnostic">>},
   result_dir : {"result"}, name : {"run"},
   checkpoint : {<<"checkpoints", "step_1000.ckpt">>}, datamode : {"test"}]
  \cup
  [isTrain : {FALSE}, flow_warp : BOOLEAN, has_n_frames_total : {TRUE},
   n_frames_total : 1..MaxFrames, display_count : {1},
   person_channels : {22}, cloth_channels : {RGB_CHANNELS},
   person_vis_names : {<<"agnostic", "cocopose">>},
   result_dir : {"result"}, name : {"run"},
   checkpoint : {<<"checkpoints", "step_1000.ckpt">>}, datamode : {"test"}]

\* The frame count the dataset packs into the channel axis.
BatchFrames(hp) == CtorFrames(hp)

Repeat(t, n) == Cat([i \in 1..n |-> t])

ImageA == <<Uniform(One), Ramp(-One, One), Uniform(0)>>
ImageB == <<Ramp(One, 0), Uniform(-One), Ramp(0, One)>>
Images == {ImageA, ImageB}
FlowFields == {<<Uniform(0), Uniform(0)>>, <<Ramp(1, -1), Uniform(0)>>}
VGGValues == {0, 3}

MaskLogits == {Uniform(-1), Uniform(1), Ramp(-1, 0)}
WeightLogits == {Uniform(1), Ramp(-1, 0)}
RenderBases == {<<Ramp(0, -1), Uniform(-1), Uniform(1)>>}

\* Raw outputs of the generator, output_nc channels wide.
GeneratorOutputs(nc) ==
  {[c \in 1..nc |-> IF c = nc THEN w
                    ELSE IF c = nc - 1 THEN m
                    ELSE base[((c - 1) % Len(base)) + 1]] :
     base \in RenderBases, m \in MaskLogits, w \in WeightLogits}

PersonTensor(hp) ==
  [c \in 1..(hp.person_channels * BatchFrames(hp)) |-> Uniform(0)]

VisTensor(channels) == [c \in 1..channels |-> Uniform(c)]

\* The person visuals of a training batch.
TrainVisuals(hp) ==
  [name \in VisNames |-> VisTensor(VisFrameChannels(name) * BatchFrames(hp))]

TrainBatches(hp) ==
  LET n == BatchFrames(hp)
  IN  [image : {Repeat(i, n) : i \in Images},
       prev_image : {Repeat(i, n) : i \in Images},
       cloth : {Repeat(ImageA, n)},
       cloth_mask : {Repeat(<<Ramp(One, 0)>>, n)},
       flow : {Repeat(f, n) : f \in FlowFields},
       person : {PersonTensor(hp)},
       visuals : {TrainVisuals(hp)}]

DatasetNames == {"vvt", "mpv"}
ImNames == {"a.png", "b.png"}

TestBatches(hp) ==
  LET n == BatchFrames(hp)
  IN  UNION {[dataset_name : [1..b -> DatasetNames], im_name : [1..b -> ImNames],
              cloth : {Repeat(ImageA, n)}, person : {PersonTensor(hp)}] :
             b \in 1..MaxBatch}

(***************************************************************************)
(* The step controller.                                                    *)
(***************************************************************************)
StepsPerEpoch == 2
current_epoch == global_step \div StepsPerEpoch

Range(s) == {s[i] : i \in 1..Len(s)}

DictUpdate(a, b) ==
  [k \in DOMAIN a \cup DOMAIN b |-> IF k \in DOMAIN b THEN b[k] ELSE a[k]]

NoForward == ForwardFail("not run", <<>>)
NoVisuals == [status |-> "not run", tensors |-> <<>>, kept |-> <<>>,
              warned |-> <<>>]

CallRec(op, status, events) ==
  [op |-> op, status |-> status, events |-> events, result |-> <<>>,
   fwd |-> NoForward, vis |-> NoVisuals, batch |-> <<>>, gen |-> <<>>,
   step |-> global_step, save_paths |-> <<>>, prev_frame_before |-> prev_frame,
   fs_before |-> fs, n_forward_before |-> n_forward, input |-> <<>>]

\* Variant: the mask term left out of the total.
TotalLossNoMask(loss_image_l1, loss_image_vgg, loss_mask_l1) ==
  loss_image_l1 + loss_image_vgg

TotalLoss(loss_image_l1, loss_image_vgg, loss_mask_l1) ==
  loss_image_l1 + loss_image_vgg + loss_mask_l1

ProgressBar(loss_image_l1, loss_image_vgg, loss_mask_l1) ==
  [loss_image_l1 |-> loss_image_l1, loss_image_vgg |-> loss_image_vgg,
   loss_mask_l1 |-> loss_mask_l1]

TrainResult(epoch, loss, progress_bar) ==
  [loss |-> loss,
   log |-> DictUpdate([epoch |-> epoch, loss |-> loss], progress_bar),
   progress_bar |-> progress_bar]

\* Variant: the batch's previous image stored instead of its image.
NextPrevFramePrevImage(batch) == Some(batch.prev_image)

\* self.prev_frame = im
NextPrevFrame(batch) == Some(batch.image)

\* Variant: the period counted from one.
DisplayDueOffByOne(step, display_count) == (step + 1) % display_count = 0

\* if self.global_step % self.hparams.display_count == 0
DisplayDue(step, display_count) == step % display_count = 0

Fail(c) ==
  /\ call' = c
  /\ alive' = FALSE
  /\ UNCHANGED <<hparams, unet, test_results_dir, global_step, batch_idx,
                 prev_frame, fs, board>>

TrainingStep ==
  /\ alive
  /\ hparams.isTrain
  /\ batch_idx < MaxSteps
  /\ \E batch \in TrainBatches(hparams), gen \in GeneratorOutputs(unet.output_nc),
        vgg \in VGGValues :
       \E fwd \in {Forward(hparams, unet, batch.person, batch.cloth,
                            IF hparams.flow_warp THEN Some(batch.flow) ELSE None,
                            Some(batch.prev_image), gen)} :
       LET ev1 == <<"get_inputs", "forward">> \o fwd.events
       IN
       /\ n_forward' = n_forward + 1
       /\ IF fwd.status # "returned"
          THEN /\ Fail([CallRec("training_step", fwd.status, ev1)
                        EXCEPT !.fwd = fwd])
               /\ UNCHANGED outputs
          ELSE
          LET loss_image_l1 == L1Loss(fwd.p_tryons, batch.image)
              loss_image_vgg == vgg
              loss_mask_l1 == L1Loss(fwd.m_composites, batch.cloth_mask)
              loss == TotalLoss(loss_image_l1, loss_image_vgg, loss_mask_l1)
              ev2 == ev1 \o <<"forward_returned", "loss">>
              base == [CallRec("training_step", "returned", ev2)
                       EXCEPT !.fwd = fwd, !.batch = batch, !.gen = gen]
              vis == fetch_person_visuals(hparams, batch.visuals, "none")
              result == TrainResult(current_epoch, loss,
                          ProgressBar(loss_image_l1, loss_image_vgg, loss_mask_l1))
              done(ev, v) ==
                /\ call' = [base EXCEPT !.events = ev \o <<"return">>,
                                        !.vis = v, !.result = result]
                /\ prev_frame' = NextPrevFrame(batch)
                /\ global_step' = global_step + 1
                /\ batch_idx' = batch_idx + 1
                /\ UNCHANGED <<hparams, unet, test_results_dir, fs, alive>>
          IN
          /\ outputs' = Some([p_rendered |-> fwd.p_rendereds,
                              m_composite |-> fwd.m_composites,
                              p_tryon |-> fwd.p_tryons])
          /\ IF hparams.display_count = 0
             THEN Fail([base EXCEPT !.status = "ZeroDivisionError"])
             ELSE IF ~DisplayDue(global_step, hparams.display_count)
             THEN done(ev2, NoVisuals) /\ UNCHANGED board
             ELSE IF vis.status # "returned"
             THEN Fail([base EXCEPT !.status = vis.status, !.vis = vis,
                                    !.events = ev2 \o <<"visualize">>])
             ELSE /\ board' = Append(board, [tag |-> "train",
                                             step |-> global_step,
                                             person_visuals |-> vis.kept])
                  /\ done(ev2 \o <<"visualize", "add_image">>, vis)

\* Variant: the results directory of the dataset without its try-on folder.
TryOnDirsNoSubfolder(dir, dataset_names) ==
  [i \in 1..Len(dataset_names) |-> dir \o <<dataset_names[i]>>]

\* try_on_dirs of test_step
TryOnDirs(dir, dataset_names) ==
  [i \in 1..Len(dataset_names) |-> dir \o <<dataset_names[i], "try-on">>]

\* all(osp.exists(s) for s in save_paths)
AllExist(files, save_paths) == \A i \in 1..Len(save_paths) : save_paths[i] \in files

\* save_images(p_tryon, im_names, try_on_dirs)
SaveImages(files, im_names, dirs) == files \cup Range(get_save_paths(im_names, dirs))

TestStep ==
  /\ alive
  /\ ~hparams.isTrain
  /\ batch_idx < MaxSteps
  /\ \E batch \in TestBatches(hparams) :
       LET try_on_dirs == TryOnDirs(The(test_results_dir), batch.dataset_name)
           im_names == batch.im_name
           save_paths == get_save_paths(im_names, try_on_dirs)
           rec(status, ev) == [CallRec("test_step", status, ev)
                               EXCEPT !.batch = batch, !.save_paths = save_paths]
       IN
       IF AllExist(fs, save_paths)
       THEN /\ call' = [rec("returned", <<"return">>)
                        EXCEPT !.result = [progress_bar |->
                                  [file |-> <<"Skipping", im_names[1]>>]]]
            /\ batch_idx' = batch_idx + 1
            /\ UNCHANGED <<hparams, unet, test_results_dir, global_step,
                           prev_frame, outputs, fs, board, n_forward, alive>>
       ELSE
       \E gen \in GeneratorOutputs(unet.output_nc) :
       \E fwd \in {Forward(hparams, unet, batch.person, batch.cloth, None, None,
                            gen)} :
       LET ev1 == <<"get_inputs", "forward">> \o fwd.events
       IN
       /\ n_forward' = n_forward + 1
       /\ IF fwd.status # "returned"
          THEN /\ Fail([rec(fwd.status, ev1) EXCEPT !.fwd = fwd])
               /\ UNCHANGED outputs
          ELSE /\ outputs' = Some([p_rendered |-> fwd.p_rendereds,
                                   m_composite |-> fwd.m_composites,
                                   p_tryon |-> fwd.p_tryons])
               /\ fs' = SaveImages(fs, im_names, try_on_dirs)
               /\ call' = [rec("returned", ev1 \o <<"forward_returned",
                                                    "save_images", "return">>)
                           EXCEPT !.fwd = fwd, !.gen = gen,
                                  !.result = [progress_bar |->
                                                [file |-> <<im_names[1]>>]]]
               /\ batch_idx' = batch_idx + 1
               /\ UNCHANGED <<hparams, unet, test_results_dir, global_step,
                              prev_frame, board, alive>>

\* Output files a previous run may have left in storage.
StoredFiles(hp) ==
  {<<hp.result_dir, hp.name, basename(hp.checkpoint), hp.datamode, d, "try-on", i>> :
     d \in DatasetNames, i \in ImNames}

Init ==
  /\ hparams \in HParams
  /\ unet = UnetGenerator(hparams)
  /\ test_results_dir = TestResultsDir(hparams)
  /\ global_step = 0
  /\ batch_idx = 0
  /\ prev_frame = None
  /\ outputs = None
  /\ fs \in IF hparams.isTrain THEN {{}} ELSE SUBSET StoredFiles(hparams)
  /\ board = <<>>
  /\ n_forward = 0
  /\ call = [op |-> "init", status |-> "returned", events |-> <<>>,
             result |-> <<>>, fwd |-> NoForward, vis |-> NoVisuals,
             batch |-> <<>>, gen |-> <<>>, step |-> 0, save_paths |-> <<>>,
             prev_frame_before |-> None, fs_before |-> fs,
             n_forward_before |-> 0, input |-> <<>>]
  /\ alive = TRUE

Next == TrainingStep \/ TestStep

Spec == Init /\ [][Next]_vars

(***************************************************************************)
(* The functions on their own: each is applied once to arguments drawn     *)
(* from bounded sets.                                                      *)
(***************************************************************************)
HParamsFn ==
  [isTrain : {TRUE}, flow_warp : BOOLEAN, has_n_frames_total : BOOLEAN,
   n_frames_total : 1..MaxFrames, display_count : {1},
   person_channels : {22}, cloth_channels : {RGB_CHANNELS},
   person_vis_names : NameLists,
   result_dir : {"result"}, name : {"run"},
   checkpoint : {<<"checkpoints", "step_1000.ckpt">>}, datamode : {"test"}]

\* Batches whose person visuals have 1, 2, 3 or 18 channels per frame.
VisualBatches(hp) ==
  {[name \in VisNames |-> VisTensor(k[name] * BatchFrames(hp))] :
     k \in [VisNames -> {CLOTH_MASK_CHANNELS, 2, RGB_CHANNELS, 18}]}

InitFn ==
  /\ hparams \in HParamsFn
  /\ unet = UnetGenerator(hparams)
  /\ test_results_dir = TestResultsDir(hparams)
  /\ global_step = 0
  /\ batch_idx = 0
  /\ prev_frame = None
  /\ outputs = None
  /\ fs = {}
  /\ board = <<>>
  /\ n_forward = 0
  /\ call = [op |-> "init", status |-> "returned", events |-> <<>>,
             result |-> <<>>, fwd |-> NoForward, vis |-> NoVisuals,
             batch |-> <<>>, gen |-> <<>>, step |-> 0, save_paths |-> <<>>,
             prev_frame_before |-> None, fs_before |-> {},
             n_forward_before |-> 0, input |-> <<>>]
  /\ alive = TRUE

Others == <<hparams, unet, test_results_dir, global_step, batch_idx, prev_frame,
            outputs, fs, board, alive>>

\* torch.chunk followed by torch.cat, with the configured frame count.
ChunkThenCat ==
  /\ call.op = "init"
  /\ hparams.has_n_frames_total
  /\ \E channels \in 1..MaxChannels :
       LET t == VisTensor(channels)
           chunks == Chunk(t, hparams.n_frames_total)
       IN  call' = [CallRec("chunk_cat", "returned", <<"chunk", "cat">>)
                    EXCEPT !.input = t,
                           !.result = [chunks |-> chunks, cat |-> Cat(chunks)]]
  /\ UNCHANGED <<Others, n_forward>>

FetchPersonVisualsCall ==
  /\ call.op = "init"
  /\ \E batch \in VisualBatches(hparams), sort_fn \in {"none", "reversed"} :
       \E vis \in {fetch_person_visuals(hparams, batch, sort_fn)} :
         call' = [CallRec("fetch_person_visuals", vis.status, <<>>)
                  EXCEPT !.vis = vis, !.batch = batch, !.input = sort_fn]
  /\ UNCHANGED <<Others, n_forward>>

ForwardCall ==
  /\ call.op = "init"
  /\ \E cloth \in {Repeat(i, BatchFrames(hparams)) : i \in Images},
        flows \in {None} \cup {Some(Repeat(f, BatchFrames(hparams))) :
                                 f \in FlowFields},
        prev_im \in {None, Some(Repeat(ImageB, BatchFrames(hparams)))},
        gen \in GeneratorOutputs(unet.output_nc) :
       \E fwd \in {Forward(hparams, unet, PersonTensor(hparams), cloth, flows,
                            prev_im, gen)} :
         call' = [CallRec("forward", fwd.status, fwd.events)
                  EXCEPT !.fwd = fwd, !.gen = gen,
                         !.batch = [cloth |-> cloth, flows |-> flows,
                                    prev_im |-> prev_im]]
  /\ n_forward' = n_forward + 1
  /\ UNCHANGED Others

NextFn == ChunkThenCat \/ FetchPersonVisualsCall \/ ForwardCall

SpecFn == InitFn /\ [][NextFn]_vars

(***************************************************************************)
(* Properties.                                                             *)
(***************************************************************************)
Has(ev) == ev \in Range(call.events)
IndexOf(ev) == CHOOSE i \in 1..Len(call.events) : call.events[i] = ev
ConfiguredFrames ==
  IF hparams.has_n_frames_total THEN hparams.n_frames_total ELSE 1
IsStep == call.op \in {"training_step", "test_step"}

\* The save paths the specification names for the batch of the last call:
\* result_dir/run_name/checkpoint_name/data_mode/dataset_name/try-on/image_name
ExpectedSavePaths ==
  {<<hparams.result_dir, hparams.name,
     hparams.checkpoint[Len(hparams.checkpoint)], hparams.datamode,
     call.batch.dataset_name[i], "try-on", call.batch.im_name[i]>> :
     i \in 1..Len(call.batch.im_name)}

\* C1 (as claimed): with flow-warp mode on and more than one frame, every
\* forward pass, from a training step or from an inference step, fails with
\* the precondition error before the concatenation and before the generator.
C1_FailsFast ==
  (IsStep /\ Has("forward") /\ hparams.flow_warp
     /\ hparams.has_n_frames_total /\ hparams.n_frames_total > 1)
  => /\ call.status = "AssertionError"
     /\ ~Has("cat")
     /\ ~Has("unet")
     /\ ~Has("composite")

\* C2: an inference step whose expected save paths all exist runs no forward
\* pass and writes no file, also when it is repeated.
C2_SkipIfExists ==
  (call.op = "test_step" /\ ExpectedSavePaths \subseteq call.fs_before)
  => /\ call.status = "returned"
     /\ ~Has("forward")
     /\ n_forward = call.n_forward_before
     /\ fs = call.fs_before

C2_Witness ==
  /\ call.op = "test_step"
  /\ batch_idx = 2
  /\ n_forward = 0
  /\ Len(call.batch.im_name) = 2
  /\ call.batch.dataset_name[1] # call.batch.dataset_name[2]
  /\ ExpectedSavePaths \subseteq call.fs_before
  /\ Cardinality(fs) = 2

\* C3 (as claimed): an inference step with a missing save path completes a
\* forward pass and persists the images, so that every expected file exists
\* when it returns, and computes no loss.
C3_ForwardThenPersist ==
  (call.op = "test_step" /\ ~(ExpectedSavePaths \subseteq call.fs_before))
  => /\ call.status = "returned"
     /\ Has("forward_returned")
     /\ Has("save_images")
     /\ ExpectedSavePaths \subseteq fs
     /\ ~Has("loss")

\* The try-on of frame i as the compositing formula gives it.
C4_Frame(i, n, flow_on) ==
  LET g == call.gen
      b == call.batch
      rendered == Tanh(SubSeq(g, 3 * (i - 1) + 1, 3 * i))
      mask == Sigmoid(<<g[3 * n + i]>>)
      wc == SubSeq(b.cloth, 3 * (i - 1) + 1, 3 * i)
      r == IF flow_on
           THEN LET weight == Sigmoid(<<g[4 * n + i]>>)
                    warp == Resample(b.prev_image,
                                     SubSeq(b.flow, 2 * (i - 1) + 1, 2 * i))
                IN  AddT(MulT(OneMinusT(weight), warp), MulT(weight, rendered))
           ELSE rendered
  IN  [tryon |-> AddT(MulT(wc, mask), MulT(r, OneMinusT(mask))),
       wc |-> wc, r |-> r, mask |-> mask]

\* C4 (as claimed): in both modes, flow-warp off and flow-warp on, forward
\* returns for every frame warped_cloth * mask + r * (1 - mask); a mask of 1
\* everywhere gives the warped cloth and a mask of 0 everywhere gives r.
C4_CompositeBothModes ==
  (call.op = "training_step" /\ Has("forward") /\ hparams.has_n_frames_total
     /\ (hparams.flow_warp => hparams.n_frames_total = 1))
  => /\ call.fwd.status = "returned"
     /\ LET n == hparams.n_frames_total
            f(i) == C4_Frame(i, n, hparams.flow_warp)
        IN  /\ call.fwd.p_tryons = Cat([i \in 1..n |-> f(i).tryon])
            /\ \A i \in 1..n :
                 /\ f(i).mask = <<Uniform(One)>> => f(i).tryon = f(i).wc
                 /\ f(i).mask = <<Uniform(0)>> => f(i).tryon = f(i).r

\* The part of C4 the code does satisfy: whenever forward returns.
C4_CompositeWhenReturned ==
  (call.op = "training_step" /\ call.fwd.status = "returned")
  => LET n == hparams.n_frames_total
         f(i) == C4_Frame(i, n, hparams.flow_warp)
     IN  /\ call.fwd.p_tryons = Cat([i \in 1..n |-> f(i).tryon])
         /\ \A i \in 1..n :
              /\ f(i).mask = <<Uniform(One)>> => f(i).tryon = f(i).wc
              /\ f(i).mask = <<Uniform(0)>> => f(i).tryon = f(i).r

\* The widths forward's boundaries cut the generator output into.
C5_Partition(no_flow_groups) ==
  call.fwd.parts # <<>>
  => LET n == hparams.n_frames_total
         w == IF hparams.flow_warp THEN n ELSE 0
     IN  /\ call.fwd.parts = <<3 * n, n, w>>
         /\ 3 * n + n + w = unet.output_nc
         /\ unet.output_nc =
              (IF hparams.flow_warp THEN 5 ELSE no_flow_groups) * n

\* C5 (as claimed): the generator has 3*frames output channels without
\* flow-warp and 5*frames with it, (person + cloth)*frames input channels, and
\* forward's boundaries partition the output width exactly.
C5_OutputWidth3 ==
  /\ unet.output_nc = (IF hparams.flow_warp THEN 5 ELSE 3) * ConfiguredFrames
  /\ unet.input_nc =
       (hparams.person_channels + hparams.cloth_channels) * ConfiguredFrames
  /\ C5_Partition(3)

\* C5 (amended): the generator has 4*frames output channels without flow-warp
\* (3 rendered and 1 mask channel per frame) and 5*frames with it, (person +
\* cloth)*frames input channels, and forward's boundaries partition the output
\* width exactly: 3*frames rendered, frames mask, and frames weight channels
\* in flow-warp mode only.
C5_OutputWidth4 ==
  /\ unet.output_nc = (IF hparams.flow_warp THEN 5 ELSE 4) * ConfiguredFrames
  /\ unet.input_nc =
       (hparams.person_channels + hparams.cloth_channels) * ConfiguredFrames
  /\ C5_Partition(4)

C5_Witness ==
  /\ call.op = "training_step"
  /\ call.fwd.parts = <<6, 2, 0>>
  /\ ~hparams.flow_warp
  /\ unet.output_nc = 8

C7_Names ==
  IF call.input = "reversed"
  THEN [i \in 1..Len(hparams.person_vis_names) |->
          hparams.person_vis_names[Len(hparams.person_vis_names) + 1 - i]]
  ELSE hparams.person_vis_names

C7_PerFrame(name) == Len(call.batch[name]) \div hparams.n_frames_total

C7_Qualifies(name) ==
  C7_PerFrame(name) \in {RGB_CHANNELS, CLOTH_MASK_CHANNELS}

\* C7 (as claimed): fetch_person_visuals returns, in name order, exactly the
\* tensors whose per-frame channel count is the RGB or the cloth-mask channel
\* count, skips every other with a warning, and fails with ValueError exactly
\* when no tensor qualifies.
C7_SelectsByFrameChannels ==
  (call.op = "fetch_person_visuals" /\ hparams.has_n_frames_total)
  => LET want == SelectSeq(C7_Names, C7_Qualifies)
         skip == SelectSeq(C7_Names, LAMBDA name : ~C7_Qualifies(name))
     IN  /\ call.vis.warned = skip
         /\ IF want = <<>>
            THEN call.status = "ValueError"
            ELSE /\ call.status = "returned"
                 /\ call.vis.kept = want
                 /\ Len(call.vis.tensors) = Len(want)

\* Steps of the run that have returned are the global steps below global_step.
C8_EmittedAt(k) == \E j \in 1..Len(board) : board[j].step = k

\* C8: a training step emits the visualization bundle iff its global step is a
\* multiple of display_count, after its forward pass and loss and before it
\* returns; so the bundles on the board are those of the multiples.
C8_PeriodicVisualization ==
  /\ (call.op = "training_step" /\ call.status = "returned")
     => /\ Has("add_image") <=> (call.step % hparams.display_count = 0)
        /\ Has("add_image")
           => /\ IndexOf("forward_returned") < IndexOf("loss")
              /\ IndexOf("loss") < IndexOf("add_image")
              /\ IndexOf("add_image") < IndexOf("return")
              /\ board[Len(board)].step = call.step
  /\ (hparams.isTrain /\ hparams.display_count > 0)
     => /\ \A k \in 0..(global_step - 1) :
             C8_EmittedAt(k) <=> (k % hparams.display_count = 0)
        /\ \A j \in 1..Len(board) : board[j].step < global_step \/ ~alive
        /\ \A i, j \in 1..Len(board) : i < j => board[i].step < board[j].step

C8_Witness ==
  /\ call.op = "training_step"
  /\ call.status = "returned"
  /\ hparams.display_count = 2
  /\ global_step = 2
  /\ ~Has("add_image")
  /\ Len(board) = 1
  /\ board[1].step = 0

C9_Terms == {"loss_image_l1", "loss_image_vgg", "loss_mask_l1"}

\* C9: a training step returns as loss the sum of the L1 image term, the
\* perceptual term and the L1 mask term, each under its own name in the log
\* and in the progress bar, the log holding the total and the epoch as well.
C9_LossIsSumOfThree ==
  (call.op = "training_step" /\ call.status = "returned")
  => LET r == call.result
     IN  /\ DOMAIN r = {"loss", "log", "progress_bar"}
         /\ DOMAIN r.progress_bar = C9_Terms
         /\ DOMAIN r.log = C9_Terms \cup {"epoch", "loss"}
         /\ r.progress_bar.loss_image_l1 =
              L1Loss(The(outputs).p_tryon, call.batch.image)
         /\ r.progress_bar.loss_mask_l1 =
              L1Loss(The(outputs).m_composite, call.batch.cloth_mask)
         /\ r.progress_bar.loss_image_vgg \in VGGValues
         /\ r.loss = r.progress_bar.loss_image_l1
                       + r.progress_bar.loss_image_vgg
                       + r.progress_bar.loss_mask_l1
         /\ \A t \in C9_Terms : r.log[t] = r.progress_bar[t]
         /\ r.log.loss = r.loss
         /\ r.log.epoch = call.step \div StepsPerEpoch

C9_Witness ==
  /\ call.op = "training_step"
  /\ call.status = "returned"
  /\ call.result.progress_bar.loss_image_l1 > 0
  /\ call.result.progress_bar.loss_image_vgg > 0
  /\ call.result.progress_bar.loss_mask_l1 > 0
  /\ call.result.loss > call.result.progress_bar.loss_image_l1
                          + call.result.progress_bar.loss_image_vgg

\* C10 (as claimed): each training step updates prev_frame, the image the flow
\* warps in the next training step is the prev_frame the step before stored,
\* and an inference step leaves prev_frame unchanged.
C10_WarpsStoredPrevFrame ==
  /\ (call.op = "training_step" /\ call.status = "returned")
     => prev_frame = Some(call.batch.image)
  /\ (call.op = "training_step" /\ call.fwd.status = "returned"
        /\ call.step >= 1)
     => call.fwd.warped_src = call.prev_frame_before
  /\ call.op = "test_step" => prev_frame = call.prev_frame_before

\* C10 (amended): each training step that returns stores its ground-truth
\* image in prev_frame, and a step that fails leaves it as it was; forward
\* never reads prev_frame: the image the flow warps in a training step is the
\* prev_image of that step's own batch; an inference step leaves prev_frame
\* unchanged.
C10_WarpsBatchPrevImage ==
  /\ (call.op = "training_step" /\ call.status = "returned")
     => prev_frame = Some(call.batch.image)
  /\ (call.op = "training_step" /\ call.status # "returned")
     => prev_frame = call.prev_frame_before
  /\ (call.op = "training_step" /\ call.fwd.status = "returned")
     => call.fwd.warped_src = Some(call.batch.prev_image)
  /\ call.op = "test_step" => prev_frame = call.prev_frame_before

C10_Witness ==
  /\ call.op = "training_step"
  /\ call.status = "returned"
  /\ call.step = 1
  /\ call.fwd.warped_src # call.prev_frame_before
  /\ prev_frame # call.prev_frame_before

====
